---- MODULE Spec2Model ----
(***************************************************************************)
(* Model of crevice-derive's layout generator, EmitOptions::emit           *)
(* (src/crevice-derive/src/layout.rs), and of the code it generates: the   *)
(* per-field alignment calculators, the padded #[repr(C)] struct, the      *)
(* layout trait constants ALIGNMENT / PAD_AT_END and the two conversion    *)
(* methods as_<mod>() / from_<mod>().                                      *)
(*                                                                         *)
(* A field type is known to the generator only through three facts of its  *)
(* device representation: size_of, ALIGNMENT and PAD_AT_END.  Sequences    *)
(* are 1-based here: field index k of the model is index k-1 of the code.  *)
(***************************************************************************)
EXTENDS Integers, Sequences, FiniteSets

\* ---------------------------------------------------------------- bounds

\* Longest field list of a derive input.
MaxFields == 3

\* size_of / ALIGNMENT of the device types the inputs are drawn from
\* (scalar 4/4, vec3 12/16, ...), and the layouts' minimum struct alignment.
Sizes == {0, 4, 12}
Alignments == {4, 16}
MinStructAlignments == {0, 16}

\* Host values of a leaf field, and the byte a stale buffer may hold.
LeafValues == {1, 2}
StaleBytes == {0, 171}

FieldFacts == [size : Sizes, ALIGNMENT : Alignments, PAD_AT_END : BOOLEAN]

RECURSIVE SeqsUpTo(_, _)
SeqsUpTo(S, n) ==
    IF n = 0 THEN {<<>>}
    ELSE LET shorter == SeqsUpTo(S, n - 1)
         IN  shorter \cup {Append(s, x) : s \in {t \in shorter : Len(t) = n - 1}, x \in S}

Shapes == {"Named", "Unnamed", "Unit", "Enum", "Union"}

NoLayout == [kind |-> "none"]
NoValue == <<"none">>

VARIABLES
    shape,                  \* input.data: which Data / Fields variant
    fields,                 \* the (named or unnamed) fields' device-type facts
    min_struct_alignment,   \* self.min_struct_alignment
    pc,                     \* "input", "emitted", "panicked", "device", "device2", "host"
    generated,              \* what emit() returned: the generated items
    host,                   \* the host value handed to as_<mod>()
    device,                 \* the generated struct value as_<mod>() returned
    device2,                \* the value a second as_<mod>() call on an equal host value returned
    value,                  \* the generated struct value handed to from_<mod>()
    restored                \* what from_<mod>() returned

vars == <<shape, fields, min_struct_alignment, pc, generated, host, device, device2, value, restored>>

\* ------------------------------------------------- ::crevice::internal

\* ::crevice::internal::max
max(a, b) == IF a > b THEN a ELSE b

\* ::crevice::internal::align_offset: the padding that takes offset up to the
\* next multiple of alignment.
align_offset(offset, alignment) == (alignment - (offset % alignment)) % alignment

\* ------------------------------------------------------ emit: validation

\* Faulty variant: tuple structs get through as well.
NamedFieldsBug(sh) == sh \in {"Named", "Unnamed"}

\* The match on input.data: only a struct with named fields gets through,
\* every other shape panics.
NamedFields(sh) == sh = "Named"

\* ------------------------------------------- emit: alignment calculators

\* ::core::mem::size_of of the field's device type
size_of(field) == field.size

\* Faulty variant: the previous field's PAD_AT_END is not consulted.
pad_at_endBug(fs, index) ==
    IF index = 1 THEN 0 ELSE fs[index - 1].ALIGNMENT

\* #pad_at_end: the previous field's ALIGNMENT if it has PAD_AT_END, else 0;
\* 0 for the first field (index.checked_sub(1) is None).
pad_at_end(fs, index) ==
    IF index = 1 THEN 0
    ELSE IF fs[index - 1].PAD_AT_END THEN fs[index - 1].ALIGNMENT ELSE 0

\* Faulty variant: only the field's own ALIGNMENT counts.
required_alignmentBug(fs, index) == fs[index].ALIGNMENT

\* The alignment the calculator of field index aligns to:
\* max(ALIGNMENT of the field, #pad_at_end).
required_alignment(fs, index) == max(fs[index].ALIGNMENT, pad_at_end(fs, index))

\* The sum of the sizes of the first `count` fields.
RECURSIVE sizes_only(_, _)
sizes_only(fs, count) ==
    IF count = 0 THEN 0 ELSE sizes_only(fs, count - 1) + size_of(fs[count])

RECURSIVE align_fn(_, _), offset_accumulation(_, _)

\* Faulty variant: the earlier fields' paddings are not added.
offset_accumulationBug(fs, count) == sizes_only(fs, count)

\* #( #offset_accumulation )*, the statements .take(index) keeps: for each
\* of the first `count` fields, offset += its calculator's result and
\* offset += the size of its device type.
offset_accumulation(fs, count) ==
    IF count = 0 THEN 0
    ELSE offset_accumulation(fs, count - 1) + align_fn(fs, count) + size_of(fs[count])

\* const fn #align_name(): the generated calculator of field index.  It
\* calls the calculators of all earlier fields to find its running offset.
align_fn(fs, index) ==
    LET offset == offset_accumulation(fs, index - 1)
    IN  align_offset(offset, required_alignment(fs, index))

\* ------------------------------------------------ emit: generated struct

\* Faulty variant: the array is sized by the previous field's calculator.
AlignMemberBug(fs, index) ==
    [kind |-> "align", index |-> index,
     size |-> IF index = 1 THEN 0 ELSE align_fn(fs, index - 1)]

\* A member of the generated struct: the padding array before field index
\* ([u8; #align_name()]) or the field's device value.
AlignMember(fs, index) == [kind |-> "align", index |-> index, size |-> align_fn(fs, index)]
DataMember(fs, index) == [kind |-> "data", index |-> index, size |-> size_of(fs[index])]

\* Byte offset of member m of a #[repr(C)] struct whose members are ms.  The
\* padding arrays have alignment 1, and a data member's computed offset is a
\* multiple of its device type's ALIGNMENT, so members follow one another.
RECURSIVE member_offset(_, _)
member_offset(ms, m) ==
    IF m = 1 THEN 0 ELSE member_offset(ms, m - 1) + ms[m - 1].size

\* Size of the struct: the end of its last member.
struct_size(ms) == IF ms = <<>> THEN 0 ELSE member_offset(ms, Len(ms)) + ms[Len(ms)].size

\* The position in ms of field k's member of the given kind.
MemberOf(ms, kind, k) == CHOOSE m \in 1..Len(ms) : ms[m].kind = kind /\ ms[m].index = k

\* The fold over the fields that builds max(tyN_align, ... max(ty1_align, init)).
RECURSIVE fold_max(_, _, _)
fold_max(fs, count, init) ==
    IF count = 0 THEN init
    ELSE max(fs[count].ALIGNMENT, fold_max(fs, count - 1, init))

RECURSIVE members_upto(_, _)
members_upto(fs, count) ==
    IF count = 0 THEN <<>>
    ELSE members_upto(fs, count - 1) \o <<AlignMember(fs, count), DataMember(fs, count)>>

RECURSIVE members_swapped(_, _)
members_swapped(fs, count) ==
    IF count = 0 THEN <<>>
    ELSE members_swapped(fs, count - 1) \o <<DataMember(fs, count), AlignMember(fs, count)>>

\* Faulty variant: each padding array follows its field.
generated_fieldsSwapped(fs) == members_swapped(fs, Len(fs))

\* Faulty variant: a last padding array rounds the struct's size up to the
\* largest field alignment.
generated_fieldsRounded(fs) ==
    LET ms == members_upto(fs, Len(fs))
    IN  IF fs = <<>> THEN ms
        ELSE ms \o << [kind |-> "align", index |-> Len(fs) + 1,
                       size |-> align_offset(struct_size(ms), fold_max(fs, Len(fs), 0))] >>

\* #( #generated_fields )*: per field, in declaration order, the padding
\* array and then the data member.
generated_fields(fs) == members_upto(fs, Len(fs))

\* Faulty variant: the fold starts from 0.
struct_alignmentBug(fs, min_align) == fold_max(fs, Len(fs), 0)

\* const ALIGNMENT: usize = #struct_alignment, the fold started from
\* min_struct_alignment.
struct_alignment(fs, min_align) == fold_max(fs, Len(fs), min_align)

\* The items emit() returns for a struct with named fields: the calculators
\* (by their values), the struct's members, and the layout trait constants.
GeneratedItems(fs, min_align) ==
    [kind |-> "layout",
     align |-> [k \in 1..Len(fs) |-> align_fn(fs, k)],
     members |-> generated_fields(fs),
     ALIGNMENT |-> struct_alignment(fs, min_align),
     PAD_AT_END |-> TRUE]

\* -------------------------------------------------- field conversions

\* The field types' own as_<mod>() / from_<mod>(): a leaf's host value v is
\* encoded into the size bytes of its device type and decoded back from
\* them.  A zero-sized device type carries no information (host value 0).
leaf_as(v, size) == [i \in 1..size |-> (16 * v + i) % 256]
leaf_from(bytes) == IF bytes = <<>> THEN 0 ELSE (bytes[1] - 1) \div 16

\* The host values as_<mod>() is called on: the nonzero-sized fields hold
\* the two leaf values in turn, starting with either.
HostValues(fs) ==
    {[k \in 1..Len(fs) |->
        IF size_of(fs[k]) = 0 THEN 0 ELSE IF k % 2 = 1 THEN a ELSE 3 - a] :
      a \in LeafValues}

\* ------------------------------------------- generated conversion methods

\* Faulty variant: the base of the struct update is left as the memory was.
stale_memory(ms, stale) == [m \in 1..Len(ms) |-> [i \in 1..ms[m].size |-> stale]]

\* ::crevice::internal::bytemuck::Zeroable::zeroed(), the base of the struct
\* update: every member all-zero bytes, whatever the memory held before.
zeroed(ms, stale) == [m \in 1..Len(ms) |-> [i \in 1..ms[m].size |-> 0]]

\* #( #field_initializers, )*: field_name: self.field_name.as_<mod>()
field_initializers(hostv, fs) ==
    [k \in 1..Len(fs) |-> leaf_as(hostv[k], size_of(fs[k]))]

\* fn as_<mod>(&self): the struct literal; the members the initializers do
\* not name (the padding arrays) come from the zeroed base.
as_method(hostv, fs, ms, stale) ==
    LET init == field_initializers(hostv, fs)
        base == zeroed(ms, stale)
    IN  [m \in 1..Len(ms) |-> IF ms[m].kind = "data" THEN init[ms[m].index] ELSE base[m]]

\* Faulty variant: the padding array is read in place of the field.
field_unwrappersBug(v, fs, ms) ==
    [k \in 1..Len(fs) |-> leaf_from(v[MemberOf(ms, "align", k)])]

\* #( #field_unwrappers, )*: field_name: from_<mod>(value.field_name)
field_unwrappers(v, fs, ms) ==
    [k \in 1..Len(fs) |-> leaf_from(v[MemberOf(ms, "data", k)])]

\* fn from_<mod>(value)
from_method(v, fs, ms) == field_unwrappers(v, fs, ms)

\* The bytes of a value of the #[repr(C)] struct, member after member.
RECURSIVE bytes_upto(_, _)
bytes_upto(v, count) ==
    IF count = 0 THEN <<>> ELSE bytes_upto(v, count - 1) \o v[count]

bytes_of(v) == bytes_upto(v, Len(v))

\* A value of the generated struct with the data members of v and every
\* padding byte set to junk (the struct is Pod: any bytes are a value).
with_padding(v, ms, junk) ==
    [m \in 1..Len(ms) |->
        IF ms[m].kind = "align" THEN [i \in 1..ms[m].size |-> junk] ELSE v[m]]

\* ---------------------------------------------------------- state machine

Init ==
    /\ shape \in Shapes
    /\ fields \in (IF shape = "Named" THEN SeqsUpTo(FieldFacts, MaxFields)
                   ELSE IF shape = "Unnamed" THEN SeqsUpTo(FieldFacts, 1) \ {<<>>}
                   ELSE {<<>>})
    /\ min_struct_alignment \in MinStructAlignments
    /\ pc = "input"
    /\ generated = NoLayout
    /\ host = NoValue
    /\ device = NoValue
    /\ device2 = NoValue
    /\ value = NoValue
    /\ restored = NoValue

\* EmitOptions::emit: panic on an unsupported shape, else return the items.
Emit ==
    /\ pc = "input"
    /\ IF NamedFields(shape)
       THEN /\ generated' = GeneratedItems(fields, min_struct_alignment)
            /\ pc' = "emitted"
       ELSE /\ generated' = generated
            /\ pc' = "panicked"
    /\ UNCHANGED <<shape, fields, min_struct_alignment, host, device, device2, value, restored>>

\* A call of the generated as_<mod>() on some host value.
AsMethod ==
    /\ pc = "emitted"
    /\ \E hostv \in HostValues(fields), stale \in StaleBytes :
         /\ host' = hostv
         /\ device' = as_method(hostv, fields, generated.members, stale)
    /\ pc' = "device"
    /\ UNCHANGED <<shape, fields, min_struct_alignment, generated, device2, value, restored>>

\* A second call of as_<mod>(), on a host value equal to the first.
AsMethodAgain ==
    /\ pc = "device"
    /\ \E stale \in StaleBytes :
         device2' = as_method(host, fields, generated.members, stale)
    /\ pc' = "device2"
    /\ UNCHANGED <<shape, fields, min_struct_alignment, generated, host, device, value, restored>>

\* A call of the generated from_<mod>() on the device value, whose padding
\* bytes may have been overwritten in between.
FromMethod ==
    /\ pc = "device2"
    /\ \E junk \in StaleBytes :
         /\ value' = with_padding(device, generated.members, junk)
         /\ restored' = from_method(value', fields, generated.members)
    /\ pc' = "host"
    /\ UNCHANGED <<shape, fields, min_struct_alignment, generated, host, device, device2>>

Next == Emit \/ AsMethod \/ AsMethodAgain \/ FromMethod

Spec == Init /\ [][Next]_vars

\* ------------------------------------------------- the layout, as built

\* Largest multiple of the struct's alignment tried as a base address.
MaxBaseMultiple == 3

\* emit() has returned its items.  No later step changes them, so the
\* layout's properties are stated of the state Emit leads to.
Built == pc = "emitted" /\ generated.kind = "layout"
NumFields == Len(fields)
Field(k) == fields[k]

\* Size of the padding array before field k.
padding_before(k) == generated.align[k]

\* Byte offset of field k's data in the generated struct.
offset(k) ==
    member_offset(generated.members, MemberOf(generated.members, "data", k))

total_size == struct_size(generated.members)

SetMax(S) == CHOOSE x \in S : \A y \in S : y <= x

trailing_requirement(k) ==
    IF k > 1 /\ Field(k - 1).PAD_AT_END THEN Field(k - 1).ALIGNMENT ELSE 0

RequiredAlignment(k) == SetMax({Field(k).ALIGNMENT, trailing_requirement(k)})

RECURSIVE running_offset(_)
running_offset(k) ==
    IF k = 1 THEN 0
    ELSE running_offset(k - 1) + padding_before(k - 1) + Field(k - 1).size

\* r is the least non-negative padding that takes run to a multiple of A.
IsMinimalPadding(r, run, A) ==
    /\ r >= 0
    /\ (run + r) % A = 0
    /\ \A q \in 0..(r - 1) : (run + q) % A # 0

\* The half-open byte ranges <<from, to>> of field k's padding and data.
PadRegion(k) == LET o == offset(k) IN <<o - padding_before(k), o>>
FieldRegion(k) == LET o == offset(k) IN <<o, o + Field(k).size>>

\* All regions of the layout, each tagged with its kind and field.
Regions ==
    {<<"pad", k, PadRegion(k)>> : k \in 1..NumFields}
      \cup {<<"field", k, FieldRegion(k)>> : k \in 1..NumFields}

InRegion(b, r) == r[3][1] <= b /\ b < r[3][2]

\* The classic vec3-after-scalar input.
Vec3Scenario ==
    /\ shape = "Named"
    /\ fields = << [size |-> 4, ALIGNMENT |-> 4, PAD_AT_END |-> FALSE],
                   [size |-> 12, ALIGNMENT |-> 16, PAD_AT_END |-> FALSE] >>
    /\ min_struct_alignment = 16

\* ------------------------------------------------------------------ claims

\* C1: in a built layout, padding_before(k) is the least r >= 0 such that
\* running_offset(k) + r is a multiple of required_alignment(k) =
\* max(alignment(k), trailing_requirement(k)), with running_offset(k) the sum
\* of padding_before(i) + size(i) over i < k; so 0 <= padding_before(k) <
\* required_alignment(k).
C1_PaddingMinimal ==
    Built =>
      \A k \in 1..NumFields :
        /\ IsMinimalPadding(padding_before(k), running_offset(k), RequiredAlignment(k))
        /\ 0 <= padding_before(k)
        /\ padding_before(k) < RequiredAlignment(k)

C1_Witness ==
    /\ Built
    /\ \E k \in 3..NumFields :
         /\ padding_before(k) > 0
         /\ padding_before(k - 1) > 0
         /\ trailing_requirement(k) > Field(k).ALIGNMENT

\* C2: nesting law.  If field i has PAD_AT_END and alignment A and a next
\* field exists, the next field's offset is a multiple of A whatever its own
\* alignment; if field i has no PAD_AT_END, the next field is padded to its
\* own alignment only.
C2_NestingLaw ==
    Built =>
      \A i \in 1..(NumFields - 1) :
        IF Field(i).PAD_AT_END
        THEN offset(i + 1) % Field(i).ALIGNMENT = 0
        ELSE /\ pad_at_end(fields, i + 1) = 0
             /\ IsMinimalPadding(padding_before(i + 1), running_offset(i + 1),
                                 Field(i + 1).ALIGNMENT)
             /\ offset(i + 1) % Field(i + 1).ALIGNMENT = 0

C2_Witness ==
    /\ Built
    /\ \E i \in 1..(NumFields - 1) :
         /\ Field(i).PAD_AT_END
         /\ Field(i).ALIGNMENT > Field(i + 1).ALIGNMENT
         /\ padding_before(i + 1) >= Field(i + 1).ALIGNMENT
         /\ offset(i + 1) % Field(i).ALIGNMENT = 0

\* C3: the struct's ALIGNMENT is the maximum of min_struct_alignment and the
\* fields' alignments (min_struct_alignment for no fields), and its
\* PAD_AT_END is true; order, sizes and the fields' PAD_AT_END play no part.
C3_StructAlignment ==
    Built =>
      /\ generated.ALIGNMENT =
           SetMax({min_struct_alignment} \cup {Field(k).ALIGNMENT : k \in 1..NumFields})
      /\ generated.PAD_AT_END = TRUE
      /\ (NumFields = 0 => generated.ALIGNMENT = min_struct_alignment)

C3_Witness ==
    /\ Built
    /\ NumFields >= 2
    /\ Field(1).ALIGNMENT > Field(NumFields).ALIGNMENT
    /\ Field(1).ALIGNMENT > min_struct_alignment
    /\ Field(1).size < Field(NumFields).size
    /\ generated.ALIGNMENT = Field(1).ALIGNMENT

\* C4: the padding regions [offset(k) - padding_before(k), offset(k)) and the
\* field regions [offset(k), offset(k) + size(k)) are pairwise disjoint and
\* cover exactly [0, total_size).
C4_RegionsTile ==
    Built =>
      LET regions == Regions
          total == total_size
      IN  /\ \A r \in regions :
               0 <= r[3][1] /\ r[3][1] <= r[3][2] /\ r[3][2] <= total
          /\ \A b \in 0..(total - 1) :
               \E r \in regions :
                 /\ InRegion(b, r)
                 /\ \A q \in regions : InRegion(b, q) => q = r

C4_Witness ==
    /\ Built
    /\ NumFields >= 3
    /\ \E j, k \in 1..NumFields :
         /\ j # k
         /\ padding_before(j) > 0
         /\ padding_before(k) > 0
    /\ \E k \in 1..NumFields : Field(k).size = 0

\* C5: round trip.  from_<mod>() of the value as_<mod>() returned gives back
\* the host value on every field, reading each field from its own region of
\* the bytes, whatever the padding bytes hold.
C5_RoundTrip ==
    pc = "host" =>
      /\ restored = host
      /\ LET bytes == bytes_of(value)
         IN  \A k \in 1..NumFields :
               LET data == FieldRegion(k)
               IN  restored[k] = leaf_from(SubSeq(bytes, data[1] + 1, data[2]))

C5_Witness ==
    /\ pc = "host"
    /\ NumFields >= 2
    /\ host[1] # host[2]
    /\ Field(1).size > 0
    /\ Field(2).size > 0
    /\ bytes_of(value) # bytes_of(device)
    /\ restored = host

\* C6: determinism.  Two as_<mod>() calls on equal host values return
\* byte-identical values of total_size bytes, and every byte of every
\* padding region of the result is zero.
C6_Deterministic ==
    /\ pc = "device2" => bytes_of(device2) = bytes_of(device)
    /\ pc \in {"device", "device2"} =>
         LET bytes == bytes_of(IF pc = "device" THEN device ELSE device2)
         IN  /\ Len(bytes) = total_size
             /\ \A k \in 1..NumFields :
                  LET pad == PadRegion(k)
                  IN  \A b \in pad[1]..(pad[2] - 1) : bytes[b + 1] = 0

C6_Witness ==
    /\ pc = "device2"
    /\ \E k \in 1..NumFields : padding_before(k) > 0
    /\ \E k \in 1..NumFields : host[k] = 2
    /\ bytes_of(device2) = bytes_of(device)

\* C7: an enum, a union, a tuple struct or a unit struct is rejected and no
\* layout, not even a partial one, is produced; a struct with named fields,
\* also with none, is accepted and yields a complete layout.
C7_ValidationAtomic ==
    /\ pc = "input" => generated = NoLayout
    /\ pc = "panicked" => shape # "Named" /\ generated = NoLayout
    /\ pc \notin {"input", "panicked"} =>
         /\ shape = "Named"
         /\ generated.kind = "layout"
         /\ DOMAIN generated.align = 1..NumFields
         /\ Len(generated.members) = 2 * NumFields
         /\ generated.ALIGNMENT \in Nat
         /\ generated.PAD_AT_END \in BOOLEAN

C7_Witness ==
    /\ pc = "panicked"
    /\ shape = "Unnamed"
    /\ NumFields = 1
    /\ generated = NoLayout

\* C8: total_size is offset(last) + size(last), 0 for no fields, and is not
\* rounded up to the struct's alignment; the vec3-after-scalar input gives
\* offsets 0 and 16, paddings 0 and 12, total size 28, alignment 16.
C8_TightTotalSize ==
    Built =>
      /\ NumFields > 0 => total_size = offset(NumFields) + Field(NumFields).size
      /\ NumFields = 0 => total_size = 0
      /\ Vec3Scenario =>
           /\ offset(1) = 0
           /\ offset(2) = 16
           /\ padding_before(1) = 0
           /\ padding_before(2) = 12
           /\ total_size = 28
           /\ generated.ALIGNMENT = 16
           /\ generated.PAD_AT_END = TRUE

C8_Witness ==
    /\ Built
    /\ Vec3Scenario
    /\ total_size = 28
    /\ total_size % generated.ALIGNMENT # 0

\* C9 as stated: offset(k) is the sum of size(i) + padding_before(i) over the
\* strictly earlier fields i < k.
C9_OffsetIsEarlierSum ==
    Built => \A k \in 1..NumFields : offset(k) = running_offset(k)

\* C9 as amended: offset(k) is that sum plus field k's own padding_before(k);
\* the sum is the size of the struct built from fields 1..k-1 alone, and the
\* paddings and offsets of fields 1..j are those of the layout built from
\* fields 1..j alone, so later fields never change them.
C9_OffsetIsSumPlusOwnPadding ==
    Built =>
      /\ \A k \in 1..NumFields :
           /\ offset(k) = running_offset(k) + padding_before(k)
           /\ running_offset(k) = struct_size(generated_fields(SubSeq(fields, 1, k - 1)))
      /\ \A j \in 0..NumFields :
           LET prefix == GeneratedItems(SubSeq(fields, 1, j), min_struct_alignment)
           IN  \A k \in 1..j :
                 /\ prefix.align[k] = padding_before(k)
                 /\ member_offset(prefix.members, MemberOf(prefix.members, "data", k))
                      = offset(k)

C9_Witness ==
    /\ Built
    /\ \E k \in 3..NumFields :
         /\ padding_before(k) > 0
         /\ padding_before(k - 1) > 0
         /\ offset(k) > running_offset(k)

\* C10: every field's offset is a multiple of the field's alignment and the
\* struct's alignment is a multiple of every field's required alignment, so
\* at a base address that is a multiple of the struct's alignment every
\* field is aligned.
C10_FieldsAligned ==
    Built =>
      \A k \in 1..NumFields :
        /\ offset(k) % Field(k).ALIGNMENT = 0
        /\ generated.ALIGNMENT % RequiredAlignment(k) = 0
        /\ \A m \in 0..MaxBaseMultiple :
             (m * generated.ALIGNMENT + offset(k)) % Field(k).ALIGNMENT = 0

C10_Witness ==
    /\ Built
    /\ min_struct_alignment = 0
    /\ \E k \in 3..NumFields :
         /\ Field(k).ALIGNMENT = 16
         /\ padding_before(k) > 0
         /\ padding_before(k - 1) > 0
         /\ Field(k - 1).ALIGNMENT = 4

====
